---- MODULE Spec2Model ----
(***************************************************************************)
(* Model of scripts/build_imdb_catalog.py: the one-shot batch pipeline     *)
(* that scans five IMDb dumps chunk by chunk, narrows the key set,         *)
(* resolves director / cast ids to names and writes movies_local and       *)
(* movies_features.                                                        *)
(*                                                                         *)
(* Text is a sequence of one-token strings ("A", " ", "|", "p1", ...).     *)
(* A missing value (pandas NA / NaN / None) is the text NA; a missing      *)
(* number is NaInt; a field that does not parse as a number is BadNum.     *)
(***************************************************************************)
EXTENDS Integers, Sequences, FiniteSets, TLC

\* ---------------------------------------------------------------- bounds
MaxBasics == 2        \* longest title source
MaxRatings == 2       \* longest ratings source
MaxCrew == 2          \* longest crew source
MaxPrincipals == 2    \* longest principals source of the short family
MaxNames == 2         \* longest people source
MaxChunk == 2         \* largest batch size tried
MaxText == 3          \* longest genres text of the text family
RowMB == 64           \* weight of one written row, in MB
MaxCatalog == 3       \* most rows of the recommender's index
MaxTopN == 3          \* largest top_n asked for
MaxSim == 2           \* similarities are k / MaxSim, k in 0..MaxSim
MaxSessions == 2      \* Streamlit sessions
MaxIds == 2           \* TMDB ids
MaxTicks == 1         \* times the clock is moved on
CastRows == 6         \* length of the long principals sources

\* ------------------------------------------------------- configuration
MIN_YEAR == 1980
MIN_VOTES == 1000
RUNTIME_MIN == 60
RUNTIME_MAX == 240
CAST_TOP_N == 5

BASICS_PATH == "title.basics"
RATINGS_PATH == "title.ratings"
CREW_PATH == "title.crew"
PRINCIPALS_PATH == "title.principals"
NAMES_PATH == "name.basics"
PATHS == <<BASICS_PATH, RATINGS_PATH, CREW_PATH, PRINCIPALS_PATH, NAMES_PATH>>
PathSet == {PATHS[i] : i \in 1..Len(PATHS)}

\* ------------------------------------------------------ value encoding
NA == <<"#NA">>         \* missing text value
StrNA == <<"<NA>">>     \* str(pd.NA)
Sentinel == <<"\\N">>   \* IMDb's "no value" marker
NaInt == -1000          \* missing number
BadNum == -2000         \* text that is not a number
FracNum == -3000        \* text that is a number with a fractional part
WS == {" ", "\t"}

TCONSTS == <<"t1", "t2">>
TconstRank(k) == CHOOSE i \in 1..Len(TCONSTS) : TCONSTS[i] = k

Min(a, b) == IF a < b THEN a ELSE b

\* ------------------------------------------------------ text functions
\* str.lower on the alphabet in use
LowerCh(c) ==
    CASE c = "A" -> "a"
      [] c = "C" -> "c"
      [] c = "D" -> "d"
      [] OTHER -> c

Lower(s) == [i \in 1..Len(s) |-> LowerCh(s[i])]

\* str.replace(a, b) for one-character a and b
Replace(s, a, b) == [i \in 1..Len(s) |-> IF s[i] = a THEN b ELSE s[i]]

RECURSIVE LStrip(_)
LStrip(s) == IF s # <<>> /\ Head(s) \in WS THEN LStrip(Tail(s)) ELSE s

RECURSIVE RStrip(_)
RStrip(s) ==
    IF s # <<>> /\ s[Len(s)] \in WS THEN RStrip(SubSeq(s, 1, Len(s) - 1)) ELSE s

\* str.strip()
Strip(s) == RStrip(LStrip(s))

\* str.split(sep): always at least one segment
RECURSIVE SplitOn(_, _)
SplitOn(s, sep) ==
    IF \E i \in 1..Len(s) : s[i] = sep
    THEN LET i == CHOOSE j \in 1..Len(s) :
                      s[j] = sep /\ \A k \in 1..(j - 1) : s[k] # sep
         IN <<SubSeq(s, 1, i - 1)>> \o SplitOn(SubSeq(s, i + 1, Len(s)), sep)
    ELSE <<s>>

\* str.split(): maximal runs of non-whitespace
RECURSIVE SplitWS(_)
SplitWS(s) ==
    LET t == LStrip(s)
    IN IF t = <<>> THEN <<>>
       ELSE LET n == IF \E i \in 1..Len(t) : t[i] \in WS
                     THEN (CHOOSE j \in 1..Len(t) :
                              t[j] \in WS /\ \A k \in 1..(j - 1) : t[k] \notin WS) - 1
                     ELSE Len(t)
            IN <<SubSeq(t, 1, n)>> \o SplitWS(SubSeq(t, n + 1, Len(t)))

\* sep.join(parts)
RECURSIVE Join(_, _)
Join(parts, sep) ==
    IF parts = <<>> THEN <<>>
    ELSE IF Len(parts) = 1 THEN parts[1]
    ELSE parts[1] \o sep \o Join(Tail(parts), sep)

\* Series.astype(str) on one value
astype_str(v) == IF v = NA THEN StrNA ELSE v

\* pd.to_numeric(errors="coerce").astype("Int64") on one value
to_int_series(v) == IF v = BadNum THEN NaInt ELSE v

split_imdb_list(value) ==
    IF value = NA \/ value = Sentinel \/ Strip(value) = <<>> THEN <<>>
    ELSE LET toks == SplitOn(value, ",")
             st == [i \in 1..Len(toks) |-> Strip(toks[i])]
         IN SelectSeq(st, LAMBDA x : x # <<>>)

SeqToSet(s) == {s[i] : i \in 1..Len(s)}
KeysOf(rows) == {rows[i].tconst : i \in 1..Len(rows)}

\* ------------------------------------------------------- stage functions
BasicsMaskAdultKept(r) ==
    LET sy == to_int_series(r.startYear)
        rt == to_int_series(r.runtimeMinutes)
    IN /\ r.titleType = <<"movie">>
       /\ (IF r.isAdult = NaInt THEN 0 ELSE r.isAdult) = 0
       /\ r.primaryTitle # NA
       /\ Strip(r.primaryTitle) # <<>>
       /\ sy # NaInt /\ sy >= MIN_YEAR
       /\ rt # NaInt /\ rt >= RUNTIME_MIN /\ rt <= RUNTIME_MAX
       /\ r.genres # NA
       /\ r.genres # Sentinel

\* the "Option A" mask of load_filtered_basics on one row
BasicsMask(r) ==
    LET sy == to_int_series(r.startYear)
        rt == to_int_series(r.runtimeMinutes)
    IN /\ r.titleType = <<"movie">>
       /\ (IF r.isAdult = NaInt THEN 1 ELSE r.isAdult) = 0
       /\ r.primaryTitle # NA
       /\ Strip(r.primaryTitle) # <<>>
       /\ sy # NaInt
       /\ sy >= MIN_YEAR
       /\ rt # NaInt
       /\ rt >= RUNTIME_MIN
       /\ rt <= RUNTIME_MAX
       /\ r.genres # NA
       /\ r.genres # Sentinel

\* chunk.loc[mask, [...]] with the converted year and runtime
BasicsProject(r) ==
    [tconst |-> r.tconst, primaryTitle |-> r.primaryTitle,
     startYear |-> to_int_series(r.startYear),
     runtimeMinutes |-> to_int_series(r.runtimeMinutes), genres |-> r.genres]

FilterBasicsChunk(chunk) ==
    LET kept == SelectSeq(chunk, BasicsMask)
    IN [i \in 1..Len(kept) |-> BasicsProject(kept[i])]

drop_duplicatesLast(rows) ==
    LET keep == SelectSeq([i \in 1..Len(rows) |-> i], LAMBDA i :
                    \A j \in (i + 1)..Len(rows) : rows[j].tconst # rows[i].tconst)
    IN [n \in 1..Len(keep) |-> rows[keep[n]]]

\* DataFrame.drop_duplicates(subset=["tconst"]): first occurrence is kept
drop_duplicates(rows) ==
    LET idx == {i \in 1..Len(rows) :
                   \A j \in 1..(i - 1) : rows[j].tconst # rows[i].tconst}
        F[i \in 0..Len(rows)] ==
            IF i = 0 THEN <<>>
            ELSE IF i \in idx THEN Append(F[i - 1], rows[i]) ELSE F[i - 1]
    IN F[Len(rows)]

FilterByKeysNone(chunk, keys) == chunk

\* chunk[chunk["tconst"].isin(tconst_set)]
FilterByKeys(chunk, keys) == SelectSeq(chunk, LAMBDA r : r.tconst \in keys)

\* the category test left out
CastMaskAnyRole(r, keys) ==
    /\ r.tconst \in keys
    /\ r.ordering # NaInt
    /\ r.ordering <= CAST_TOP_N

\* the row filter of load_cast_topn_for_tconst
CastMask(r, keys) ==
    /\ r.tconst \in keys
    /\ r.category \in {<<"actor">>, <<"actress">>}
    /\ r.ordering # NaInt
    /\ r.ordering <= CAST_TOP_N

FilterCastChunk(chunk, keys) ==
    LET kept == SelectSeq(chunk, LAMBDA r : CastMask(r, keys))
    IN [i \in 1..Len(kept) |->
          [tconst |-> kept[i].tconst, ordering |-> kept[i].ordering,
           nconst |-> kept[i].nconst]]

\* sort_values(["tconst", "ordering"], kind="mergesort"): stable
RowLeq(a, b) ==
    \/ TconstRank(a.tconst) < TconstRank(b.tconst)
    \/ a.tconst = b.tconst /\ a.ordering <= b.ordering

SortInsert(sorted, r) ==
    LET n == Cardinality({i \in 1..Len(sorted) : RowLeq(sorted[i], r)})
    IN SubSeq(sorted, 1, n) \o <<r>> \o SubSeq(sorted, n + 1, Len(sorted))

RECURSIVE sort_values(_)
sort_values(rows) ==
    IF rows = <<>> THEN <<>>
    ELSE SortInsert(sort_values(SubSeq(rows, 1, Len(rows) - 1)), rows[Len(rows)])

\* basics.merge(ratings, on="tconst", how="inner"): left order, every match
MergeRatings(left, right) ==
    LET Match(l) ==
            LET m == SelectSeq(right, LAMBDA r : r.tconst = l.tconst)
            IN [j \in 1..Len(m) |->
                  [tconst |-> l.tconst, primaryTitle |-> l.primaryTitle,
                   startYear |-> l.startYear, runtimeMinutes |-> l.runtimeMinutes,
                   genres |-> l.genres, averageRating |-> m[j].averageRating,
                   numVotes |-> m[j].numVotes]]
        F[i \in 0..Len(left)] ==
            IF i = 0 THEN <<>> ELSE F[i - 1] \o Match(left[i])
    IN F[Len(left)]

VotesMaskStrict(r) == r.numVotes # NaInt /\ r.numVotes > MIN_VOTES

\* movies[movies["numVotes"].notna() & (movies["numVotes"] >= MIN_VOTES)]
VotesMask(r) == r.numVotes # NaInt /\ r.numVotes >= MIN_VOTES

\* the collection of director ids in main
DirectorIds(crewRows) ==
    UNION {SeqToSet(split_imdb_list(astype_str(crewRows[i].directors))) :
             i \in 1..Len(crewRows)}

CastIds(prows) == {astype_str(prows[i].nconst) : i \in 1..Len(prows)}

\* mapping[str(nconst)] = str(pname) over the rows of one chunk, in order
MapPut(m, k, v) == [x \in (DOMAIN m) \cup {k} |-> IF x = k THEN v ELSE m[x]]

RECURSIVE MapChunk(_, _)
MapChunk(m, rows) ==
    IF rows = <<>> THEN m
    ELSE LET r == Head(rows)
         IN MapChunk(IF r.nconst # NA /\ r.primaryName # NA
                     THEN MapPut(m, r.nconst, r.primaryName) ELSE m,
                     Tail(rows))

directors_to_namesIds(directors_field, nm) ==
    LET ids == split_imdb_list(directors_field)
    IN Join([k \in 1..Len(ids) |->
               IF ids[k] \in DOMAIN nm THEN nm[ids[k]] ELSE ids[k]], <<"|">>)

directors_to_namesGaps(directors_field, nm) ==
    LET ids == split_imdb_list(directors_field)
    IN Join([k \in 1..Len(ids) |->
               IF ids[k] \in DOMAIN nm THEN nm[ids[k]] ELSE <<>>], <<"|">>)

\* directors_to_names of main
directors_to_names(directors_field, nm) ==
    LET ids == split_imdb_list(directors_field)
        found == SelectSeq(ids, LAMBDA i : i \in DOMAIN nm /\ nm[i] # <<>>)
    IN Join([k \in 1..Len(found) |-> nm[found[k]]], <<"|">>)

\* principals["nconst"].map(name_map).fillna("") and the blank-name filter
ActorName(r, nm) == IF r.nconst \in DOMAIN nm THEN nm[r.nconst] ELSE <<>>

NamedCast(prows, nm) ==
    LET named == [i \in 1..Len(prows) |->
                    [tconst |-> prows[i].tconst, ordering |-> prows[i].ordering,
                     nconst |-> prows[i].nconst,
                     actor_name |-> ActorName(prows[i], nm)]]
    IN SelectSeq(named, LAMBDA r : Strip(r.actor_name) # <<>>)

\* groupby("tconst")["actor_name"].apply("|".join(s[:CAST_TOP_N]))
cast_agg(named) ==
    LET sorted == sort_values(named)
    IN [k \in KeysOf(sorted) |->
          LET g == SelectSeq(sorted, LAMBDA r : r.tconst = k)
              top == SubSeq(g, 1, Min(Len(g), CAST_TOP_N))
          IN Join([i \in 1..Len(top) |-> top[i].actor_name], <<"|">>)]

\* movies.merge(crew, how="left").merge(cast_agg, how="left") + fillna("")
\* how="inner" on the crew merge
MergeCreditsInner(mv, crewNamed, agg) ==
    LET Out(l, dn) ==
            [tconst |-> l.tconst, primaryTitle |-> l.primaryTitle,
             startYear |-> l.startYear, runtimeMinutes |-> l.runtimeMinutes,
             genres |-> l.genres, averageRating |-> l.averageRating,
             numVotes |-> l.numVotes, director_names |-> dn,
             cast_names_top5 |-> IF l.tconst \in DOMAIN agg THEN agg[l.tconst]
                                 ELSE <<>>]
        Match(l) ==
            LET m == SelectSeq(crewNamed, LAMBDA c : c.tconst = l.tconst)
            IN [j \in 1..Len(m) |-> Out(l, m[j].director_names)]
        F[i \in 0..Len(mv)] ==
            IF i = 0 THEN <<>> ELSE F[i - 1] \o Match(mv[i])
    IN F[Len(mv)]

MergeCredits(mv, crewNamed, agg) ==
    LET Out(l, dn) ==
            [tconst |-> l.tconst, primaryTitle |-> l.primaryTitle,
             startYear |-> l.startYear, runtimeMinutes |-> l.runtimeMinutes,
             genres |-> l.genres, averageRating |-> l.averageRating,
             numVotes |-> l.numVotes, director_names |-> dn,
             cast_names_top5 |-> IF l.tconst \in DOMAIN agg THEN agg[l.tconst]
                                 ELSE <<>>]
        Match(l) ==
            LET m == SelectSeq(crewNamed, LAMBDA c : c.tconst = l.tconst)
            IN IF m = <<>> THEN <<Out(l, <<>>)>>
               ELSE [j \in 1..Len(m) |-> Out(l, m[j].director_names)]
        F[i \in 0..Len(mv)] ==
            IF i = 0 THEN <<>> ELSE F[i - 1] \o Match(mv[i])
    IN F[Len(mv)]

\* str.replace("  ", " "): one pass, left to right
RECURSIVE ReplacePairs(_)
ReplacePairs(s) ==
    IF Len(s) < 2 THEN s
    ELSE IF s[1] = " " /\ s[2] = " "
         THEN <<" ">> \o ReplacePairs(SubSeq(s, 3, Len(s)))
         ELSE <<s[1]>> \o ReplacePairs(Tail(s))

NormalizePairs(s) == ReplacePairs(Lower(Strip(s)))

\* .strip().lower() and " ".join(soup.split()) of build_soup
Normalize(s) == Join(SplitWS(Lower(Strip(s))), <<" ">>)

\* the separators of the name lists left in place
build_soupKeepBar(row) ==
    LET parts == <<Replace(row.genres, ",", " "), row.director_names,
                   row.cast_names_top5>>
    IN Normalize(Join(parts, <<" ">>))

build_soup(row) ==
    LET parts == <<Replace(row.genres, ",", " "),
                   Replace(row.director_names, "|", " "),
                   Replace(row.cast_names_top5, "|", " ")>>
    IN Normalize(Join(parts, <<" ">>))

BuildFeaturesUnique(mv) ==
    LET u == drop_duplicates(mv)
    IN [i \in 1..Len(u) |-> [tconst |-> u[i].tconst, soup |-> build_soup(u[i])]]

\* features = pd.DataFrame({"tconst": ..., "soup": movies.apply(build_soup)})
BuildFeatures(mv) ==
    [i \in 1..Len(mv) |-> [tconst |-> mv[i].tconst, soup |-> build_soup(mv[i])]]

\* ------------------------------------------------------------- inputs
BasicsRow(k, tt, title, adult, year, rt, g) ==
    [tconst |-> k, titleType |-> tt, primaryTitle |-> title, isAdult |-> adult,
     startYear |-> year, runtimeMinutes |-> rt, genres |-> g]

GoodTitle(k, title) == BasicsRow(k, <<"movie">>, title, 0, 1999, 120, <<"D">>)

BasicsRows ==
    { GoodTitle("t1", <<"X">>), GoodTitle("t2", <<"X">>), GoodTitle("t1", <<"Y">>),
      BasicsRow("t1", <<"movie">>, <<"X">>, 0, BadNum, 120, <<"D">>),
      BasicsRow("t2", <<"movie">>, <<"X">>, 0, 1999, BadNum, <<"D">>),
      BasicsRow("t2", <<"movie">>, <<"X">>, NaInt, 1999, 120, <<"D">>),
      BasicsRow("t2", <<"short">>, <<"X">>, BadNum, 1999, 120, <<"D">>) }

RatingRow(k, avg, votes) == [tconst |-> k, averageRating |-> avg, numVotes |-> votes]

RatingsRows ==
    { RatingRow("t1", 75, 5000), RatingRow("t2", 60, 1000), RatingRow("t1", NaInt, 5000),
      RatingRow("t2", 60, 999), RatingRow("t2", 80, NaInt), RatingRow("t2", 80, BadNum) }

CrewRow(k, d) == [tconst |-> k, directors |-> d]

CrewRows ==
    { CrewRow("t1", <<"p1", ",", "p2">>), CrewRow("t1", <<"p2", ",", " ", "p1">>),
      CrewRow("t1", Sentinel), CrewRow("t2", NA), CrewRow("t2", <<"p3">>),
      CrewRow("t1", <<"p3", ",", "p2", ",", "p1">>) }

PrincipalRow(k, o, n, c) == [tconst |-> k, ordering |-> o, nconst |-> n, category |-> c]

PrincipalRows ==
    { PrincipalRow("t1", 1, <<"p3">>, <<"actor">>),
      PrincipalRow("t1", 5, <<"p1">>, <<"actress">>),
      PrincipalRow("t1", 6, <<"p9">>, <<"actor">>),
      PrincipalRow("t1", 2, <<"p2">>, <<"director">>),
      PrincipalRow("t2", 1, <<"p1">>, <<"actor">>),
      PrincipalRow("t2", NaInt, <<"p3">>, <<"actor">>),
      PrincipalRow("t1", BadNum, <<"p3">>, <<"actor">>) }

NameRow(n, name) == [nconst |-> n, primaryName |-> name]

NameRows ==
    { NameRow(<<"p1">>, <<"A">>), NameRow(<<"p3">>, <<"C">>), NameRow(<<"p2">>, NA),
      NameRow(<<"p1">>, <<" ">>), NameRow(<<"p3">>, <<"A", "|", "c">>),
      NameRow(<<"p2">>, <<"D", " ", "c">>) }

\* one title row for every combination of field values around the limits
FilterRows ==
    { BasicsRow("t1", tt, title, adult, year, rt, g) :
        tt \in {<<"movie">>, <<"short">>, NA},
        title \in {<<"X">>, <<" ">>, NA},
        adult \in {0, 1, NaInt},
        year \in {MIN_YEAR - 1, MIN_YEAR, NaInt, BadNum, FracNum},
        rt \in {RUNTIME_MIN - 1, RUNTIME_MIN, RUNTIME_MAX, RUNTIME_MAX + 1,
                NaInt, BadNum},
        g \in {<<"D">>, NA, Sentinel} }

SeqsUpTo(S, n) == UNION {[1..m -> S] : m \in 0..n}

CanonBasics == <<GoodTitle("t1", <<"X">>), GoodTitle("t2", <<"Y">>)>>
CanonRatings == <<RatingRow("t1", 75, 5000), RatingRow("t2", 60, 1000)>>
LowRatings == <<RatingRow("t1", 60, 1000), RatingRow("t2", 60, 999)>>
RatingsChoices ==
    {CanonRatings, LowRatings, CanonRatings \o <<RatingRow("t1", 60, 1000)>>}
CanonCrew == <<CrewRow("t1", <<"p1", ",", "p2">>)>>
CanonPrincipals ==
    <<PrincipalRow("t1", 1, <<"p3">>, <<"actor">>),
      PrincipalRow("t1", 6, <<"p9">>, <<"actor">>)>>
CanonNames == <<NameRow(<<"p1">>, <<"A">>), NameRow(<<"p3">>, <<"C">>)>>

\* long principals sources: CastRows acting rows of t1
LongCast ==
    { [i \in 1..CastRows |->
          PrincipalRow("t1", f[i], IF i % 2 = 1 THEN <<"p3">> ELSE <<"p1">>,
                       <<"actor">>)] : f \in [1..CastRows -> {1, 5, 6}] }

LongNames ==
    { CanonNames,
      <<NameRow(<<"p1">>, <<"A">>), NameRow(<<"p3">>, <<"A", "|", "c">>)>>,
      <<NameRow(<<"p3">>, <<"C">>), NameRow(<<"p1">>, <<" ">>)>> }

Sources(b, r, c, p, n) ==
    [x \in PathSet |->
        CASE x = BASICS_PATH -> b
          [] x = RATINGS_PATH -> r
          [] x = CREW_PATH -> c
          [] x = PRINCIPALS_PATH -> p
          [] x = NAMES_PATH -> n]

\* -------------------------------------------------------------- state
VARIABLES
    exists,         \* the input paths present on disk
    src,            \* the rows of each input source
    chunksize,      \* the batch size of each scan (CHUNK_*)
    pc,             \* position of main
    total_rows,     \* rows scanned so far, per source
    basics, tconst_set, ratings, movies, crew, principals,
    needed_nconst, name_map, stopped, features,
    outLocal, outFeatures,   \* the two output files on disk
    printed,        \* the closing lines main printed
    error,          \* the exception that ended the run
    reco,           \* recommender: the loaded index and the last call
    clock,          \* time.time() of the TMDB client
    files,          \* tmdb_cache/bundle_tmdb_<id>.json, per id
    store,          \* tmdb_cache/bundles_by_tmdb_id.json
    calls,          \* the get_tmdb_details_bundle call of each session
    sessions        \* Streamlit sessions that may run a call at once

pipeVars == <<exists, src, chunksize, pc, total_rows, basics, tconst_set, ratings,
              movies, crew, principals, needed_nconst, name_map, stopped, features,
              outLocal, outFeatures, printed, error>>
appVars == <<reco, clock, files, store, calls, sessions>>
vars == <<pipeVars, appVars>>

\* the recommender before any call, with an empty index
RecoIdle ==
    [tconst_list |-> <<>>, query |-> "", top_n |-> 0, sims |-> <<>>,
     out |-> <<>>, pc |-> "idle"]

\* TTL in seconds
TTL_BUNDLES == 30 * 24 * 3600

\* the clock when the model starts: later than one TTL after time zero
Epoch == TTL_BUNDLES + 1

Sessions == 1..MaxSessions
TmdbIds == 1..MaxIds

\* a cache file that is absent, and one cut short by a write in progress
NoFile == [kind |-> "none"]
TornFile == [kind |-> "torn"]
NoBundle == [kind |-> "none"]
IdleCall ==
    [pc |-> "idle", tmdb_id |-> 0, use_cache |-> FALSE, store |-> NoFile,
     bundle |-> NoBundle, served |-> NoBundle, checked_at |-> 0,
     http |-> 0, reads |-> 0, writes |-> 0]

\* neither application is in use
AppIdle ==
    /\ reco = RecoIdle
    /\ clock = [now |-> Epoch, ticks |-> 0]
    /\ files = [i \in TmdbIds |-> NoFile]
    /\ store = NoFile
    /\ calls = [p \in Sessions |-> IdleCall]
    /\ sessions = 1

EmptyMap == [x \in {} |-> <<>>]
NoError == [kind |-> "none", at |-> "none", paths |-> <<>>]
PriorFile == [by |-> "prior", complete |-> TRUE, rows |-> <<>>]

InitRun ==
    /\ pc = "start"
    /\ total_rows = [x \in PathSet |-> 0]
    /\ basics = <<>> /\ tconst_set = {} /\ ratings = <<>> /\ movies = <<>>
    /\ crew = <<>> /\ principals = <<>>
    /\ needed_nconst = {} /\ name_map = EmptyMap /\ stopped = FALSE
    /\ features = <<>>
    /\ outLocal = PriorFile /\ outFeatures = PriorFile
    /\ printed = <<>>
    /\ error = NoError
    /\ AppIdle

UniformChunks == {[x \in PathSet |-> c] : c \in 1..MaxChunk}

\* some input is absent
InitMissing ==
    /\ exists \in (SUBSET PathSet) \ {PathSet}
    /\ src = [x \in PathSet |->
                IF x \in exists
                THEN Sources(CanonBasics, CanonRatings, CanonCrew,
                             CanonPrincipals, CanonNames)[x]
                ELSE <<>>]
    /\ chunksize \in UniformChunks

\* titles and ratings vary
InitKeys ==
    /\ exists = PathSet
    /\ \E b \in SeqsUpTo(BasicsRows, MaxBasics), r \in SeqsUpTo(RatingsRows, MaxRatings) :
          src = Sources(b, r, CanonCrew, CanonPrincipals, CanonNames)
    /\ chunksize \in UniformChunks

\* crew rows and people vary
InitCrew ==
    /\ exists = PathSet
    /\ \E r \in RatingsChoices,
          c \in SeqsUpTo(CrewRows, MaxCrew), n \in SeqsUpTo(NameRows, MaxNames) :
          src = Sources(CanonBasics, r, c, CanonPrincipals, n)
    /\ chunksize \in UniformChunks

\* principal rows and people vary
InitCast ==
    /\ exists = PathSet
    /\ \E r \in {CanonRatings, LowRatings},
          p \in SeqsUpTo(PrincipalRows, MaxPrincipals),
          n \in SeqsUpTo(NameRows, MaxNames) :
          src = Sources(CanonBasics, r, CanonCrew, p, n)
    /\ chunksize \in UniformChunks

\* many acting rows for one title
InitLongCast ==
    /\ exists = PathSet
    /\ \E p \in LongCast, n \in LongNames :
          src = Sources(CanonBasics, CanonRatings, CanonCrew, p, n)
    /\ chunksize \in UniformChunks

\* every text of 1..n characters
SoupChars == {"A", "c", " ", "\t", ",", "|"}
Texts(n) == UNION {[1..m -> SoupChars] : m \in 1..n}

\* people sources of the text family: no name at all, plain names, and a name
\* with a comma
SoupNames ==
    { <<>>, CanonNames,
      <<NameRow(<<"p1">>, <<"A", ",", " ", "c">>), NameRow(<<"p3">>, <<"C">>)>> }

\* one surviving title whose genres field is any short text
InitSoup ==
    /\ exists = PathSet
    /\ \E g \in Texts(MaxText), c \in {<<>>, CanonCrew}, n \in SoupNames :
          src = Sources(<<BasicsRow("t1", <<"movie">>, <<"X">>, 0, 1999, 120, g)>>,
                        CanonRatings, c, CanonPrincipals, n)
    /\ chunksize \in UniformChunks

\* one surviving title whose directors field is missing or any short text
DirChars == {"p1", "p2", " ", ",", "\\N"}
DirTexts(n) == {NA} \cup UNION {[1..m -> DirChars] : m \in 1..n}

InitDirectors ==
    /\ exists = PathSet
    /\ \E d \in DirTexts(MaxText) :
          src = Sources(<<GoodTitle("t1", <<"X">>)>>, CanonRatings,
                        <<CrewRow("t1", d)>>, CanonPrincipals, CanonNames)
    /\ chunksize \in UniformChunks

\* the end-to-end scenario of the testable properties
ScenarioSources ==
    Sources(<<BasicsRow("t1", <<"movie">>, <<"X">>, 0, 1999, 120,
                        <<"D", "r", "a", "m", "a">>)>>,
            <<RatingRow("t1", 75, 5000)>>,
            <<CrewRow("t1", <<"p1", ",", "p2">>)>>,
            <<PrincipalRow("t1", 1, <<"p3">>, <<"actor">>),
              PrincipalRow("t1", 6, <<"p9">>, <<"actor">>)>>,
            <<NameRow(<<"p1">>, <<"A">>), NameRow(<<"p3">>, <<"C">>)>>)

InitScenario ==
    /\ exists = PathSet
    /\ src = ScenarioSources
    /\ chunksize \in UniformChunks

\* one title row, every combination of its fields
InitFilter ==
    /\ exists = PathSet
    /\ \E b \in FilterRows :
          src = Sources(<<b>>, CanonRatings, CanonCrew, CanonPrincipals, CanonNames)
    /\ chunksize \in UniformChunks

Init ==
    InitRun /\ (InitMissing \/ InitKeys \/ InitCrew \/ InitCast \/ InitLongCast
                   \/ InitFilter \/ InitScenario \/ InitSoup
                   \/ InitDirectors)

\* ------------------------------------------------------------- actions
CHUNK_BASICS == chunksize[BASICS_PATH]
CHUNK_RATINGS == chunksize[RATINGS_PATH]
CHUNK_CREW == chunksize[CREW_PATH]
CHUNK_PRINCIPALS == chunksize[PRINCIPALS_PATH]
CHUNK_NAMES == chunksize[NAMES_PATH]

\* the next batch pd.read_csv(..., chunksize=n) yields for a source
NextChunk(path, n) ==
    SubSeq(src[path], total_rows[path] + 1, Min(total_rows[path] + n, Len(src[path])))

\* a header-only source yields one empty batch in pandas, which changes no
\* variable of any loader; it is folded into the step that ends the loop
MoreRows(path) == total_rows[path] < Len(src[path])
Scanned(path, chunk) == [total_rows EXCEPT ![path] = @ + Len(chunk)]

\* a column read with dtype Int64 holds text that is not a number
BadInt(chunk, col) == \E i \in 1..Len(chunk) : chunk[i][col] = BadNum

\* .astype("Int64") in to_int_series meets a number that is not whole
NotIntegral(chunk, col) == \E i \in 1..Len(chunk) : chunk[i][col] = FracNum

Raise(kind) ==
    /\ pc' = "failed"
    /\ error' = [kind |-> kind, at |-> pc, paths |-> <<>>]

MissingFirst(paths) ==
    LET m == SelectSeq(paths, LAMBDA x : x \notin exists)
    IN IF m = <<>> THEN <<>> ELSE <<Head(m)>>

\* missing = [str(p) for p in paths if not p.exists()]
MissingPaths(paths) == SelectSeq(paths, LAMBDA x : x \notin exists)

\* ensure_files_exist: every path is present
EnsureFilesExist ==
    /\ pc = "start"
    /\ MissingPaths(PATHS) = <<>>
    /\ pc' = "basics"
    /\ UNCHANGED <<appVars, printed, exists, src, chunksize, total_rows, basics, tconst_set, ratings,
                   movies, crew, principals, needed_nconst, name_map, stopped,
                   features, outLocal, outFeatures, error>>

\* ensure_files_exist: FileNotFoundError listing the missing paths
EnsureFilesExistRaise ==
    /\ pc = "start"
    /\ LET missing == MissingPaths(PATHS)
       IN /\ missing # <<>>
          /\ pc' = "failed"
          /\ error' = [kind |-> "missing", at |-> pc, paths |-> missing]
    /\ UNCHANGED <<appVars, printed, exists, src, chunksize, total_rows, basics, tconst_set, ratings,
                   movies, crew, principals, needed_nconst, name_map, stopped,
                   features, outLocal, outFeatures>>

\* load_filtered_basics: one batch of the title source
BasicsChunk ==
    /\ pc = "basics" /\ MoreRows(BASICS_PATH)
    /\ LET chunk == NextChunk(BASICS_PATH, CHUNK_BASICS)
       IN /\ ~BadInt(chunk, "isAdult")
          /\ ~NotIntegral(chunk, "startYear")
          /\ ~NotIntegral(chunk, "runtimeMinutes")
          /\ total_rows' = Scanned(BASICS_PATH, chunk)
          /\ basics' = basics \o FilterBasicsChunk(chunk)
    /\ UNCHANGED <<appVars, printed, exists, src, chunksize, pc, tconst_set, ratings, movies, crew,
                   principals, needed_nconst, name_map, stopped, features,
                   outLocal, outFeatures, error>>

\* load_filtered_basics: the parser rejects a batch (isAdult is read as Int64),
\* or to_int_series cannot cast a fractional year or runtime to Int64
BasicsChunkRaise ==
    /\ pc = "basics" /\ MoreRows(BASICS_PATH)
    /\ LET chunk == NextChunk(BASICS_PATH, CHUNK_BASICS)
       IN \/ BadInt(chunk, "isAdult")
          \/ NotIntegral(chunk, "startYear")
          \/ NotIntegral(chunk, "runtimeMinutes")
    /\ Raise("parse")
    /\ UNCHANGED <<appVars, printed, exists, src, chunksize, total_rows, basics, tconst_set, ratings,
                   movies, crew, principals, needed_nconst, name_map, stopped,
                   features, outLocal, outFeatures>>

\* load_filtered_basics after the loop, and tconst_set of main
BasicsDone ==
    /\ pc = "basics" /\ ~MoreRows(BASICS_PATH)
    /\ basics' = drop_duplicates(basics)
    /\ tconst_set' = KeysOf(basics')
    /\ pc' = "ratings"
    /\ UNCHANGED <<appVars, printed, exists, src, chunksize, total_rows, ratings, movies, crew,
                   principals, needed_nconst, name_map, stopped, features,
                   outLocal, outFeatures, error>>

\* load_ratings_for_tconst: one batch of the ratings source
RatingsChunk ==
    /\ pc = "ratings" /\ MoreRows(RATINGS_PATH)
    /\ LET chunk == NextChunk(RATINGS_PATH, CHUNK_RATINGS)
       IN /\ ~BadInt(chunk, "numVotes")
          /\ total_rows' = Scanned(RATINGS_PATH, chunk)
          /\ ratings' = ratings \o FilterByKeys(chunk, tconst_set)
    /\ UNCHANGED <<appVars, printed, exists, src, chunksize, pc, basics, tconst_set, movies, crew,
                   principals, needed_nconst, name_map, stopped, features,
                   outLocal, outFeatures, error>>

\* load_ratings_for_tconst: the parser rejects a batch (numVotes is read as Int64)
RatingsChunkRaise ==
    /\ pc = "ratings" /\ MoreRows(RATINGS_PATH)
    /\ BadInt(NextChunk(RATINGS_PATH, CHUNK_RATINGS), "numVotes")
    /\ Raise("parse")
    /\ UNCHANGED <<appVars, printed, exists, src, chunksize, total_rows, basics, tconst_set, ratings,
                   movies, crew, principals, needed_nconst, name_map, stopped,
                   features, outLocal, outFeatures>>

\* main: inner join with the ratings, votes filter, new tconst_set
RatingsDone ==
    /\ pc = "ratings" /\ ~MoreRows(RATINGS_PATH)
    /\ movies' = SelectSeq(MergeRatings(basics, ratings), VotesMask)
    /\ tconst_set' = KeysOf(movies')
    /\ pc' = "crew"
    /\ UNCHANGED <<appVars, printed, exists, src, chunksize, total_rows, basics, ratings, crew,
                   principals, needed_nconst, name_map, stopped, features,
                   outLocal, outFeatures, error>>

\* load_directors_for_tconst: one batch of the crew source
CrewChunk ==
    /\ pc = "crew" /\ MoreRows(CREW_PATH)
    /\ LET chunk == NextChunk(CREW_PATH, CHUNK_CREW)
       IN /\ total_rows' = Scanned(CREW_PATH, chunk)
          /\ crew' = crew \o FilterByKeys(chunk, tconst_set)
    /\ UNCHANGED <<appVars, printed, exists, src, chunksize, pc, basics, tconst_set, ratings, movies,
                   principals, needed_nconst, name_map, stopped, features,
                   outLocal, outFeatures, error>>

CrewDone ==
    /\ pc = "crew" /\ ~MoreRows(CREW_PATH)
    /\ pc' = "principals"
    /\ UNCHANGED <<appVars, printed, exists, src, chunksize, total_rows, basics, tconst_set, ratings,
                   movies, crew, principals, needed_nconst, name_map, stopped,
                   features, outLocal, outFeatures, error>>

\* load_cast_topn_for_tconst: one batch of the principals source
PrincipalsChunk ==
    /\ pc = "principals" /\ MoreRows(PRINCIPALS_PATH)
    /\ LET chunk == NextChunk(PRINCIPALS_PATH, CHUNK_PRINCIPALS)
       IN /\ ~BadInt(chunk, "ordering")
          /\ total_rows' = Scanned(PRINCIPALS_PATH, chunk)
          /\ principals' = principals \o FilterCastChunk(chunk, tconst_set)
    /\ UNCHANGED <<appVars, printed, exists, src, chunksize, pc, basics, tconst_set, ratings, movies,
                   crew, needed_nconst, name_map, stopped, features,
                   outLocal, outFeatures, error>>

\* load_cast_topn_for_tconst: the parser rejects a batch (ordering is read as Int64)
PrincipalsChunkRaise ==
    /\ pc = "principals" /\ MoreRows(PRINCIPALS_PATH)
    /\ BadInt(NextChunk(PRINCIPALS_PATH, CHUNK_PRINCIPALS), "ordering")
    /\ Raise("parse")
    /\ UNCHANGED <<appVars, printed, exists, src, chunksize, total_rows, basics, tconst_set, ratings,
                   movies, crew, principals, needed_nconst, name_map, stopped,
                   features, outLocal, outFeatures>>

\* load_cast_topn_for_tconst after the loop, and the id collection of main
PrincipalsDone ==
    /\ pc = "principals" /\ ~MoreRows(PRINCIPALS_PATH)
    /\ principals' = sort_values(principals)
    /\ needed_nconst' = DirectorIds(crew) \cup CastIds(principals')
    /\ pc' = "names"
    /\ UNCHANGED <<appVars, printed, exists, src, chunksize, total_rows, basics, tconst_set, ratings,
                   movies, crew, name_map, stopped, features,
                   outLocal, outFeatures, error>>

AllMappedStrict(m, needed) == Cardinality(DOMAIN m) > Cardinality(needed)

\* stopping at the first name found
AllMappedAny(m, needed) == Cardinality(DOMAIN m) >= 1

\* if len(mapping) >= len(needed_nconst): break
AllMapped(m, needed) == Cardinality(DOMAIN m) >= Cardinality(needed)

\* the scan ticking found ids off the set it was handed
NamesChunkDiscards ==
    /\ pc = "names" /\ MoreRows(NAMES_PATH) /\ ~stopped
    /\ LET chunk == NextChunk(NAMES_PATH, CHUNK_NAMES)
           hit == SelectSeq(chunk, LAMBDA r : r.nconst \in needed_nconst)
       IN /\ total_rows' = Scanned(NAMES_PATH, chunk)
          /\ name_map' = MapChunk(name_map, hit)
          /\ needed_nconst' = needed_nconst \ DOMAIN name_map'
          /\ stopped' = (needed_nconst' = {})
    /\ UNCHANGED <<appVars, printed, exists, src, chunksize, pc, basics, tconst_set, ratings,
                   movies, crew, principals, features, outLocal, outFeatures, error>>

\* build_name_map: one batch of the people source, then the early-stop test
NamesChunk ==
    /\ pc = "names" /\ MoreRows(NAMES_PATH) /\ ~stopped
    /\ LET chunk == NextChunk(NAMES_PATH, CHUNK_NAMES)
           hit == SelectSeq(chunk, LAMBDA r : r.nconst \in needed_nconst)
       IN /\ total_rows' = Scanned(NAMES_PATH, chunk)
          /\ name_map' = MapChunk(name_map, hit)
          /\ stopped' = AllMapped(name_map', needed_nconst)
    /\ UNCHANGED <<appVars, printed, exists, src, chunksize, pc, basics, tconst_set, ratings, movies,
                   crew, principals, needed_nconst, features,
                   outLocal, outFeatures, error>>

\* crew["director_names"] = crew["directors"].apply(directors_to_names)
NamedCrew(crewRows, nm) ==
    [i \in 1..Len(crewRows) |->
        [tconst |-> crewRows[i].tconst,
         director_names |-> directors_to_names(crewRows[i].directors, nm)]]

\* the two left merges of main on the named crew and the aggregated cast
Assemble(mv, crewRows, prows, nm) ==
    MergeCredits(mv, NamedCrew(crewRows, nm), cast_agg(NamedCast(prows, nm)))

\* main from directors_to_names to the two frames that are written
NamesDone ==
    /\ pc = "names" /\ (stopped \/ ~MoreRows(NAMES_PATH))
    /\ crew' = NamedCrew(crew, name_map)
    /\ principals' = NamedCast(principals, name_map)
    /\ movies' = Assemble(movies, crew, principals, name_map)
    /\ features' = BuildFeatures(Assemble(movies, crew, principals, name_map))
    /\ pc' = "write_local"
    /\ UNCHANGED <<appVars, printed, exists, src, chunksize, total_rows, basics, tconst_set, ratings,
                   needed_nconst, name_map, stopped, outLocal, outFeatures, error>>

\* main with no surviving title: movies.apply(build_soup, axis=1) on an empty
\* frame yields a frame, not a column, and pandas versions differ on whether
\* pd.DataFrame({...}) accepts it; the run may end here with ValueError
AssembleRaise ==
    /\ pc = "names" /\ (stopped \/ ~MoreRows(NAMES_PATH))
    /\ movies = <<>>
    /\ Raise("assemble")
    /\ UNCHANGED <<appVars, printed, exists, src, chunksize, total_rows, basics, tconst_set, ratings,
                   movies, crew, principals, needed_nconst, name_map, stopped,
                   features, outLocal, outFeatures>>

Written(rows) == [by |-> "run", complete |-> TRUE, rows |-> rows]
Prefixes(rows) == {SubSeq(rows, 1, n) : n \in 0..Len(rows)}

\* movies.to_csv(OUT_LOCAL)
WriteLocal ==
    /\ pc = "write_local"
    /\ outLocal' = Written(movies)
    /\ pc' = "write_features"
    /\ UNCHANGED <<appVars, printed, exists, src, chunksize, total_rows, basics, tconst_set, ratings,
                   movies, crew, principals, needed_nconst, name_map, stopped,
                   features, outFeatures, error>>

\* movies.to_csv(OUT_LOCAL) raises OSError: before the file is opened, or
\* after it was truncated and part of the rows went out
WriteLocalRaise ==
    /\ pc = "write_local"
    /\ \/ outLocal' = outLocal
       \/ \E part \in Prefixes(movies) :
             outLocal' = [by |-> "run", complete |-> FALSE, rows |-> part]
    /\ Raise("write")
    /\ UNCHANGED <<appVars, printed, exists, src, chunksize, total_rows, basics, tconst_set, ratings,
                   movies, crew, principals, needed_nconst, name_map, stopped,
                   features, outFeatures>>

\* features.to_csv(OUT_FEATURES)
\* the header's ceiling for an output file, in MB
SIZE_BUDGET_MB == 100

\* path.stat().st_size / (1024 * 1024), every written row weighing RowMB
file_size_mb(f) == Len(f.rows) * RowMB

OUT_LOCAL == "movies_local.csv.gz"
OUT_FEATURES == "movies_features.csv.gz"

\* features.to_csv(OUT_FEATURES) and the three closing prints
WriteFeatures ==
    /\ pc = "write_features"
    /\ outFeatures' = Written(features)
    /\ printed' = <<[tag |-> "write", args |-> <<OUT_LOCAL, file_size_mb(outLocal)>>],
                    [tag |-> "write",
                     args |-> <<OUT_FEATURES, file_size_mb(outFeatures')>>],
                    [tag |-> "done", args |-> <<Len(movies), Len(features)>>]>>
    /\ pc' = "done"
    /\ UNCHANGED <<appVars, exists, src, chunksize, total_rows, basics, tconst_set, ratings,
                   movies, crew, principals, needed_nconst, name_map, stopped,
                   features, outLocal, error>>

WriteFeaturesRaise ==
    /\ pc = "write_features"
    /\ \/ outFeatures' = outFeatures
       \/ \E part \in Prefixes(features) :
             outFeatures' = [by |-> "run", complete |-> FALSE, rows |-> part]
    /\ Raise("write")
    /\ UNCHANGED <<appVars, printed, exists, src, chunksize, total_rows, basics, tconst_set, ratings,
                   movies, crew, principals, needed_nconst, name_map, stopped,
                   features, outLocal>>

Next ==
    \/ EnsureFilesExist \/ EnsureFilesExistRaise
    \/ BasicsChunk \/ BasicsChunkRaise \/ BasicsDone
    \/ RatingsChunk \/ RatingsChunkRaise \/ RatingsDone
    \/ CrewChunk \/ CrewDone
    \/ PrincipalsChunk \/ PrincipalsChunkRaise \/ PrincipalsDone
    \/ NamesChunk \/ NamesDone \/ AssembleRaise
    \/ WriteLocal \/ WriteLocalRaise
    \/ WriteFeatures \/ WriteFeaturesRaise

Spec == Init /\ [][Next]_vars

\* runs whose sources hold one malformed number, or no rating at all
FaultySources ==
    { Sources(<<BasicsRow("t1", <<"movie">>, <<"X">>, BadNum, 1999, 120, <<"D">>)>>,
              CanonRatings, CanonCrew, CanonPrincipals, CanonNames),
      Sources(<<GoodTitle("t1", <<"X">>), GoodTitle("t2", <<"Y">>)>>,
              <<RatingRow("t1", 75, 5000), RatingRow("t2", 60, BadNum)>>,
              CanonCrew, CanonPrincipals, CanonNames),
      Sources(CanonBasics, CanonRatings, CanonCrew,
              <<PrincipalRow("t1", 1, <<"p3">>, <<"actor">>),
                PrincipalRow("t1", BadNum, <<"p1">>, <<"actor">>)>>, CanonNames),
      Sources(CanonBasics, <<>>, CanonCrew, CanonPrincipals, CanonNames) }

InitFaulty ==
    /\ exists = PathSet
    /\ src \in FaultySources
    /\ chunksize \in UniformChunks

\* the runs followed to their end
LiveInit ==
    InitRun /\ (InitMissing \/ InitScenario \/ InitDirectors \/ InitFaulty)

\* main has neither returned nor raised
Running == pc \notin {"done", "failed"}

\* main is one sequential process that the interpreter keeps running: weak
\* fairness of Next, WF_vars(Next), with its enabling condition written out
LiveSpec ==
    LiveInit /\ [][Next]_vars /\ (<>[](~Running) \/ []<><<Next>>_vars)

\* ---------------------------------------------------------- recommender
\* the pipeline at rest while an application runs
PipeIdle ==
    /\ exists = {}
    /\ src = Sources(<<>>, <<>>, <<>>, <<>>, <<>>)
    /\ chunksize = [x \in PathSet |-> 1]
    /\ pc = "start"
    /\ total_rows = [x \in PathSet |-> 0]
    /\ basics = <<>> /\ tconst_set = {} /\ ratings = <<>> /\ movies = <<>>
    /\ crew = <<>> /\ principals = <<>>
    /\ needed_nconst = {} /\ name_map = EmptyMap /\ stopped = FALSE
    /\ features = <<>>
    /\ outLocal = PriorFile /\ outFeatures = PriorFile
    /\ printed = <<>>
    /\ error = NoError

TmdbIdle ==
    /\ clock = [now |-> Epoch, ticks |-> 0]
    /\ files = [i \in TmdbIds |-> NoFile]
    /\ store = NoFile
    /\ calls = [p \in Sessions |-> IdleCall]
    /\ sessions = 1

\* the keys tconst_index.csv may hold, and one key it never holds
CatalogKeys == {"t1", "t2", "t3"}
QueryKeys == CatalogKeys \cup {"t9"}

\* load_reco_artifacts: tconst_list, rows of the index in file order
RecoInit ==
    /\ PipeIdle /\ TmdbIdle
    /\ \E l \in SeqsUpTo(CatalogKeys, MaxCatalog) :
          reco = [RecoIdle EXCEPT !.tconst_list = l]

\* tconst_to_row = {t: i for i, t in enumerate(tconst_list)}: the last row wins
tconst_to_row(l, t) ==
    CHOOSE i \in 1..Len(l) : l[i] = t /\ \A j \in (i + 1)..Len(l) : l[j] # t

\* sims[q_idx] = -1.0
ExcludeSelf(sims, q_idx) == [sims EXCEPT ![q_idx] = -MaxSim]

\* np.argpartition(-sims, range(min(top_n, len(sims))))[:top_n] followed by
\* argsort(-sims[top_idx]): any k best rows in non-increasing order of score,
\* ties in any order
TopIdx(sims, top_n) ==
    LET N == Len(sims)
        k == Min(top_n, N)
    IN { s \in [1..k -> 1..N] :
           /\ \A a, b \in 1..k : a # b => s[a] # s[b]
           /\ \A a \in 1..(k - 1) : sims[s[a]] >= sims[s[a + 1]]
           /\ \A i \in 1..N :
                 (\A a \in 1..k : s[a] # i) => \A a \in 1..k : sims[i] <= sims[s[a]] }

Returned(q, n, sims, out) ==
    reco' = [reco EXCEPT !.query = q, !.top_n = n, !.sims = sims, !.out = out,
                         !.pc = "returned"]

\* recommend_by_tconst(query_tconst, top_n)
recommend_by_tconst ==
    /\ \E q \in QueryKeys, top_n \in (0 - 1)..MaxTopN :
          LET l == reco.tconst_list
          IN IF \A i \in 1..Len(l) : l[i] # q
             THEN Returned(q, top_n, <<>>, <<>>)
             ELSE \E cos \in [1..Len(l) -> 0..MaxSim] :
                    LET sims == ExcludeSelf(cos, tconst_to_row(l, q))
                    IN IF top_n <= 0
                       THEN Returned(q, top_n, sims, <<>>)
                       ELSE \E top_idx \in TopIdx(sims, top_n) :
                              Returned(q, top_n, sims,
                                       [a \in 1..Len(top_idx) |->
                                           <<l[top_idx[a]], sims[top_idx[a]]>>])
    /\ UNCHANGED <<pipeVars, clock, files, store, calls, sessions>>

RecoNext == recommend_by_tconst
RecoSpec == RecoInit /\ [][RecoNext]_vars

\* ---------------------------------------------------------- TMDB client
\* a bundle as json: "_ts" (MissingTs when the key is absent) and the movie
\* its details, credits and external ids are of
MissingTs == 0 - 1
Bundle(ts, id) == [kind |-> "bundle", ts |-> ts, of |-> id]
StoreOf(items) == [kind |-> "store", items |-> items]
NoItems == [i \in {} |-> NoBundle]

\* _read_cache: None for an absent file and for one json cannot parse
read_cache(f) == IF f.kind \in {"none", "torn"} THEN NoFile ELSE f

\* data.get("_ts", 0)
get_ts(b) == IF b.ts = MissingTs THEN 0 ELSE b.ts

is_freshStrict(ts, ttl) == (clock.now - ts) < ttl

\* _is_fresh: (time.time() - ts) <= ttl
is_fresh(ts, ttl) == (clock.now - ts) <= ttl

\* _read_bundle_file
read_bundle_file(id) ==
    LET data == read_cache(files[id])
    IN IF data = NoFile THEN NoBundle
       ELSE IF ~is_fresh(get_ts(data), TTL_BUNDLES) THEN NoBundle
       ELSE data

\* _load_bundles_store
load_bundles_store ==
    LET s == read_cache(store)
    IN IF s = NoFile THEN StoreOf(NoItems) ELSE s

\* store["items"].get(tmdb_id_str)
GetItem(s, id) == IF id \in DOMAIN s.items THEN s.items[id] ELSE NoBundle

\* the disk the model starts from: files of movie 1 of several ages
PriorTs == {Epoch - TTL_BUNDLES, Epoch - TTL_BUNDLES - 1, MissingTs}
DiskChoices ==
    {<<NoFile, NoFile>>, <<TornFile, TornFile>>}
      \cup {<<Bundle(t, 1), NoFile>> : t \in PriorTs}
      \cup {<<NoFile, StoreOf(1 :> Bundle(t, 1))>> : t \in PriorTs}
      \cup {<<Bundle(Epoch - TTL_BUNDLES - 1, 1),
              StoreOf(1 :> Bundle(Epoch - TTL_BUNDLES, 1))>>}

TmdbInit ==
    /\ PipeIdle
    /\ reco = RecoIdle
    /\ clock = [now |-> Epoch, ticks |-> 0]
    /\ \E d \in DiskChoices :
          /\ files = [i \in TmdbIds |-> IF i = 1 THEN d[1] ELSE NoFile]
          /\ store = d[2]
    /\ calls = [p \in Sessions |-> IdleCall]
    /\ sessions \in Sessions

InFlight == {p \in Sessions : calls[p].pc \notin {"idle", "returned", "raised"}}
Step(p, c) == calls' = [calls EXCEPT ![p] = c]

\* a session enters get_tmdb_details_bundle; sessions are alike, so they are
\* taken in order
Call(p) ==
    /\ calls[p].pc = "idle"
    /\ \A q \in 1..(p - 1) : calls[q].pc # "idle"
    /\ Cardinality(InFlight) < sessions
    /\ \E id \in TmdbIds, uc \in BOOLEAN :
          Step(p, [IdleCall EXCEPT !.tmdb_id = id, !.use_cache = uc,
                                   !.pc = IF uc THEN "read_file" ELSE "fetch"])
    /\ UNCHANGED <<pipeVars, reco, clock, files, store, sessions>>

\* 1) the per-film file
ReadBundleFile(p) ==
    /\ calls[p].pc = "read_file"
    /\ LET cached_file == read_bundle_file(calls[p].tmdb_id)
       IN Step(p, [calls[p] EXCEPT
                     !.reads = @ + 1, !.checked_at = clock.now,
                     !.served = cached_file,
                     !.pc = IF cached_file # NoBundle THEN "returned"
                            ELSE "load_store"])
    /\ UNCHANGED <<pipeVars, reco, clock, files, store, sessions>>

\* 2) the global store
LoadStore(p) ==
    /\ calls[p].pc = "load_store"
    /\ LET s == load_bundles_store
           item == GetItem(s, calls[p].tmdb_id)
           hit == item # NoBundle /\ is_fresh(get_ts(item), TTL_BUNDLES)
       IN Step(p, [calls[p] EXCEPT
                     !.reads = @ + 1, !.checked_at = clock.now, !.store = s,
                     !.bundle = IF hit THEN item ELSE NoBundle,
                     !.pc = IF hit THEN "write_hit" ELSE "fetch"])
    /\ UNCHANGED <<pipeVars, reco, clock, files, store, sessions>>

\* path.write_text opens the file, which empties it, before the text goes in
TruncateFile(p) ==
    /\ calls[p].pc \in {"write_hit", "write_file"}
    /\ files' = [files EXCEPT ![calls[p].tmdb_id] = TornFile]
    /\ Step(p, [calls[p] EXCEPT
                  !.pc = IF @ = "write_hit" THEN "write_hit2" ELSE "write_file2"])
    /\ UNCHANGED <<pipeVars, reco, clock, store, sessions>>

\* _write_bundle_file(tmdb_id, item) and the return of the store's item
WriteHit(p) ==
    /\ calls[p].pc = "write_hit2"
    /\ files' = [files EXCEPT ![calls[p].tmdb_id] = calls[p].bundle]
    /\ Step(p, [calls[p] EXCEPT !.writes = @ + 1, !.served = calls[p].bundle,
                                !.pc = "returned"])
    /\ UNCHANGED <<pipeVars, reco, clock, store, sessions>>

\* the three requests and bundle = {"_ts": time.time(), ...}
Fetch(p) ==
    /\ calls[p].pc = "fetch"
    /\ Step(p, [calls[p] EXCEPT
                  !.http = @ + 3, !.bundle = Bundle(clock.now, calls[p].tmdb_id),
                  !.pc = IF calls[p].use_cache THEN "write_file" ELSE "returned"])
    /\ UNCHANGED <<pipeVars, reco, clock, files, store, sessions>>

\* _request_json raises TMDBError at the first, second or third request
FetchRaise(p) ==
    /\ calls[p].pc = "fetch"
    /\ \E k \in 1..3 : Step(p, [calls[p] EXCEPT !.http = @ + k, !.pc = "raised"])
    /\ UNCHANGED <<pipeVars, reco, clock, files, store, sessions>>

\* _write_bundle_file(tmdb_id, bundle)
WriteBundleFile(p) ==
    /\ calls[p].pc = "write_file2"
    /\ files' = [files EXCEPT ![calls[p].tmdb_id] = calls[p].bundle]
    /\ Step(p, [calls[p] EXCEPT !.writes = @ + 1, !.pc = "load_store2"])
    /\ UNCHANGED <<pipeVars, reco, clock, store, sessions>>

\* store = _load_bundles_store(); store["items"][tmdb_id_str] = bundle
LoadStoreAgain(p) ==
    /\ calls[p].pc = "load_store2"
    /\ LET s == load_bundles_store
       IN Step(p, [calls[p] EXCEPT
                     !.reads = @ + 1,
                     !.store = StoreOf(MapPut(s.items, calls[p].tmdb_id,
                                              calls[p].bundle)),
                     !.pc = "save_store"])
    /\ UNCHANGED <<pipeVars, reco, clock, files, store, sessions>>

\* _save_bundles_store: the store file is opened, which empties it
TruncateStore(p) ==
    /\ calls[p].pc = "save_store"
    /\ store' = TornFile
    /\ Step(p, [calls[p] EXCEPT !.pc = "save_store2"])
    /\ UNCHANGED <<pipeVars, reco, clock, files, sessions>>

\* _save_bundles_store: the text goes in, and the call returns
SaveStore(p) ==
    /\ calls[p].pc = "save_store2"
    /\ store' = calls[p].store
    /\ Step(p, [calls[p] EXCEPT !.writes = @ + 1, !.pc = "returned"])
    /\ UNCHANGED <<pipeVars, reco, clock, files, sessions>>

\* time passes: a second, or a whole TTL
Tick ==
    /\ clock.ticks < MaxTicks
    /\ \E d \in {1, TTL_BUNDLES} :
          clock' = [now |-> clock.now + d, ticks |-> clock.ticks + 1]
    /\ UNCHANGED <<pipeVars, reco, files, store, calls, sessions>>

TmdbNext ==
    \/ Tick
    \/ \E p \in Sessions :
          \/ Call(p) \/ ReadBundleFile(p) \/ LoadStore(p) \/ TruncateFile(p)
          \/ WriteHit(p) \/ Fetch(p) \/ FetchRaise(p) \/ WriteBundleFile(p)
          \/ LoadStoreAgain(p) \/ TruncateStore(p) \/ SaveStore(p)

TmdbSpec == TmdbInit /\ [][TmdbNext]_vars

\* -------------------------------------------------------------- claims
AllKeys == SeqToSet(TCONSTS)
Assembled == pc \in {"write_local", "write_features", "done"}

TitlePasses(k) ==
    \E i \in 1..Len(src[BASICS_PATH]) :
        src[BASICS_PATH][i].tconst = k /\ BasicsMask(src[BASICS_PATH][i])

RatingQualifies(k) ==
    \E i \in 1..Len(src[RATINGS_PATH]) :
        /\ src[RATINGS_PATH][i].tconst = k
        /\ src[RATINGS_PATH][i].numVotes # NaInt
        /\ src[RATINGS_PATH][i].numVotes >= MIN_VOTES

\* C1: after a run, a key has a CatalogEntry iff a title row of it passes the
\* title filter and a rating row of it has a present vote count >= MIN_VOTES,
\* and every CatalogEntry carries a non-null score and a non-null vote count.
C1_EntryIffSurvived ==
    pc = "done" =>
        /\ \A k \in AllKeys :
              k \in KeysOf(outLocal.rows) <=> (TitlePasses(k) /\ RatingQualifies(k))
        /\ \A i \in 1..Len(outLocal.rows) :
              /\ outLocal.rows[i].averageRating # NaInt
              /\ outLocal.rows[i].numVotes # NaInt

\* C2: at every point of a run each stage's key set is inside the key set of
\* the stage before it: retained ratings and post-rating keys are candidate
\* keys, retained crew and cast rows and the catalog rows have post-rating keys.
C2_MonotonicNarrowing ==
    /\ KeysOf(ratings) \subseteq KeysOf(basics)
    /\ KeysOf(movies) \subseteq KeysOf(basics)
    /\ tconst_set \subseteq KeysOf(basics)
    /\ pc \notin {"start", "basics", "ratings", "failed"} => tconst_set = KeysOf(movies)
    /\ KeysOf(crew) \subseteq KeysOf(movies)
    /\ KeysOf(principals) \subseteq KeysOf(movies)
    /\ outLocal.by = "run" => KeysOf(outLocal.rows) \subseteq tconst_set
    /\ outFeatures.by = "run" => KeysOf(outFeatures.rows) \subseteq tconst_set

C2_Witness ==
    /\ pc = "done"
    /\ movies # <<>>
    /\ KeysOf(movies) # KeysOf(basics)
    /\ \E i \in 1..Len(src[CREW_PATH]) : src[CREW_PATH][i].tconst \notin tconst_set
    /\ crew # <<>>

\* C3: after a completed run the feature output and the catalog output have
\* the same key set and the same number of rows.
C3_SameKeys ==
    pc = "done" =>
        /\ KeysOf(outFeatures.rows) = KeysOf(outLocal.rows)
        /\ Len(outFeatures.rows) = Len(outLocal.rows)
        /\ \A i \in 1..Len(outLocal.rows) :
              outFeatures.rows[i].tconst = outLocal.rows[i].tconst

C3_Witness ==
    /\ pc = "done"
    /\ Len(outLocal.rows) >= 2
    /\ Cardinality(KeysOf(outLocal.rows)) >= 2

\* C4: the catalog output holds exactly one CatalogEntry per surviving key,
\* also when a key occurs in several rows of the title, ratings or crew source.
C4_OneEntryPerKey ==
    pc = "done" =>
        /\ KeysOf(outLocal.rows) = KeysOf(movies)
        /\ \A i, j \in 1..Len(outLocal.rows) :
              outLocal.rows[i].tconst = outLocal.rows[j].tconst => i = j

\* the names castNames is expected to hold for key k
ExpectedCast(k) ==
    LET acting == SelectSeq(src[PRINCIPALS_PATH], LAMBDA r :
                      /\ r.tconst = k
                      /\ r.category \in {<<"actor">>, <<"actress">>}
                      /\ r.ordering # NaInt /\ r.ordering <= CAST_TOP_N)
        sorted == sort_values(acting)
        names == [i \in 1..Len(sorted) |->
                    IF sorted[i].nconst \in DOMAIN name_map
                    THEN name_map[sorted[i].nconst] ELSE <<>>]
        good == SelectSeq(names, LAMBDA n : Strip(n) # <<>>)
    IN SubSeq(good, 1, Min(Len(good), CAST_TOP_N))

\* C5: every CatalogEntry's castNames is the join of at most CAST_TOP_N resolved
\* non-blank names of its acting rows with position <= CAST_TOP_N, in ascending
\* position (ties in scan order), and splitting castNames on the separator
\* gives more than 0 and at most CAST_TOP_N segments.
C5_CastNames ==
    pc = "done" =>
        \A i \in 1..Len(outLocal.rows) :
            LET e == outLocal.rows[i]
            IN /\ e.cast_names_top5 = Join(ExpectedCast(e.tconst), <<"|">>)
               /\ Len(ExpectedCast(e.tconst)) <= CAST_TOP_N
               /\ Len(SplitOn(e.cast_names_top5, "|")) > 0
               /\ Len(SplitOn(e.cast_names_top5, "|")) <= CAST_TOP_N

\* C6: once the cast scan has finished, the cast rows retained for a surviving
\* title are its CAST_TOP_N acting rows with the smallest positions, all of its
\* acting rows when it has fewer.
C6_TopNSmallest ==
    pc = "names" =>
        \A k \in tconst_set :
            LET acting == SelectSeq(src[PRINCIPALS_PATH], LAMBDA r :
                              r.tconst = k /\ r.category \in {<<"actor">>, <<"actress">>})
                kept == SelectSeq(principals, LAMBDA r : r.tconst = k)
            IN /\ Len(kept) = Min(CAST_TOP_N, Len(acting))
               /\ \A i \in 1..Len(kept) :
                     \E j \in 1..Len(acting) :
                         /\ acting[j].ordering = kept[i].ordering
                         /\ acting[j].nconst = kept[i].nconst
               /\ \A i \in 1..Len(kept), j \in 1..Len(acting) :
                     (\A m \in 1..Len(kept) :
                          <<kept[m].ordering, kept[m].nconst>>
                              # <<acting[j].ordering, acting[j].nconst>>)
                        => kept[i].ordering <= acting[j].ordering

\* the director names expected for a crew row's director field
ExpectedDirectors(field) ==
    LET ids == split_imdb_list(field)
        res == SelectSeq(ids, LAMBDA x : x \in DOMAIN name_map)
    IN Join([k \in 1..Len(res) |-> name_map[res[k]]], <<"|">>)

C8_MissingInput ==
    /\ (exists # PathSet /\ pc # "start") =>
          /\ pc = "failed"
          /\ error.kind = "missing"
          /\ SeqToSet(error.paths) = PathSet \ exists
          /\ error.paths = SelectSeq(PATHS, LAMBDA x : x \notin exists)
          /\ \A x \in PathSet : total_rows[x] = 0
          /\ basics = <<>> /\ ratings = <<>> /\ crew = <<>> /\ principals = <<>>
          /\ outLocal = PriorFile /\ outFeatures = PriorFile
    /\ exists = PathSet => error.kind # "missing"

C8_Witness ==
    /\ pc = "failed"
    /\ error.kind = "missing"
    /\ Len(error.paths) >= 2
    /\ exists # {}

\* C9: a malformed row is never fatal: a title row with a non-numeric year or
\* runtime is dropped alone and the rows around it are kept, and a non-numeric
\* vote count does not end the run.
C9_MalformedRowNonFatal ==
    /\ pc \notin {"start", "basics", "failed"} =>
          \A k \in AllKeys : TitlePasses(k) => k \in KeysOf(basics)
    /\ ~(pc = "failed" /\ error.kind = "parse" /\ error.at = "ratings")

\* C10: when the run halts on a fatal condition neither output file has been
\* written or overwritten by it.
C10_NoPartialOutput ==
    pc = "failed" => (outLocal = PriorFile /\ outFeatures = PriorFile)

BasicsStageDone ==
    /\ pc \notin {"start", "basics"}
    /\ ~(pc = "failed" /\ error.at \in {"start", "basics"})

TitleRows(k) == SelectSeq(src[BASICS_PATH], LAMBDA r : r.tconst = k)
PassingRows(k) == SelectSeq(src[BASICS_PATH], LAMBDA r : r.tconst = k /\ BasicsMask(r))
CandidatesOf(k) == SelectSeq(basics, LAMBDA r : r.tconst = k)

\* C11 as stated: when several title rows share a key, the candidate set holds
\* exactly one record for the key and it is the first-scanned row with the key.
C11_FirstScanned ==
    BasicsStageDone =>
        \A k \in AllKeys :
            Len(TitleRows(k)) >= 2 =>
                CandidatesOf(k) = <<BasicsProject(TitleRows(k)[1])>>

\* C11 amended: when several title rows share a key, in one batch or in several,
\* the candidate set holds one record for the key, the first-scanned of its rows
\* that pass the title filter, and no record when none of them passes.
C11_FirstPassing ==
    BasicsStageDone =>
        \A k \in AllKeys :
            CandidatesOf(k) = IF PassingRows(k) = <<>> THEN <<>>
                              ELSE <<BasicsProject(PassingRows(k)[1])>>

C11_Witness ==
    /\ BasicsStageDone
    /\ CHUNK_BASICS = 1
    /\ \E k \in AllKeys :
          /\ Len(PassingRows(k)) >= 2
          /\ PassingRows(k)[1] # PassingRows(k)[2]

RatingRowsOf(k) == SelectSeq(src[RATINGS_PATH], LAMBDA r : r.tconst = k)

\* C12: every CatalogEntry has votes >= MIN_VOTES; a title that passed the
\* title filter and whose only rating has MIN_VOTES - 1 votes is in neither
\* output, and one with a rating of exactly MIN_VOTES votes is in both.
C12_VoteThreshold ==
    pc = "done" =>
        /\ \A i \in 1..Len(outLocal.rows) : outLocal.rows[i].numVotes >= MIN_VOTES
        /\ \A k \in AllKeys :
              (/\ TitlePasses(k)
               /\ RatingRowsOf(k) # <<>>
               /\ \A i \in 1..Len(RatingRowsOf(k)) :
                     RatingRowsOf(k)[i].numVotes = MIN_VOTES - 1)
                 => (k \notin KeysOf(outLocal.rows) /\ k \notin KeysOf(outFeatures.rows))
        /\ \A k \in AllKeys :
              (/\ TitlePasses(k)
               /\ \E i \in 1..Len(RatingRowsOf(k)) :
                     RatingRowsOf(k)[i].numVotes = MIN_VOTES)
                 => (k \in KeysOf(outLocal.rows) /\ k \in KeysOf(outFeatures.rows))

C12_Witness ==
    /\ pc = "done"
    /\ \E k \in AllKeys :
          /\ TitlePasses(k)
          /\ Len(RatingRowsOf(k)) = 1
          /\ RatingRowsOf(k)[1].numVotes = MIN_VOTES - 1
          /\ k \notin KeysOf(outLocal.rows)
    /\ \E k \in AllKeys :
          /\ Len(RatingRowsOf(k)) = 1
          /\ RatingRowsOf(k)[1].numVotes = MIN_VOTES
          /\ k \in KeysOf(outLocal.rows)

IsWhole(v) == v \notin {NaInt, BadNum, FracNum}

\* the six conditions of the title filter on the raw fields of a row
SixConditions(r) ==
    /\ r.titleType = <<"movie">>
    /\ r.isAdult # NaInt /\ r.isAdult = 0
    /\ r.primaryTitle # NA /\ Strip(r.primaryTitle) # <<>>
    /\ IsWhole(r.startYear) /\ r.startYear >= MIN_YEAR
    /\ IsWhole(r.runtimeMinutes)
    /\ r.runtimeMinutes >= RUNTIME_MIN /\ r.runtimeMinutes <= RUNTIME_MAX
    /\ r.genres # NA /\ r.genres # Sentinel

\* C13: once the title scan is over, a title row is in the candidate set iff
\* it is a movie, its adult flag is present and 0, its name is present and not
\* blank, its year is a present number >= MIN_YEAR, its runtime is a present
\* number in [RUNTIME_MIN, RUNTIME_MAX], and its genres are present and not \N.
C13_SixConditions ==
    BasicsStageDone =>
        /\ \A i \in 1..Len(src[BASICS_PATH]) :
              SixConditions(src[BASICS_PATH][i])
                 => src[BASICS_PATH][i].tconst \in KeysOf(basics)
        /\ \A j \in 1..Len(basics) :
              \E i \in 1..Len(src[BASICS_PATH]) :
                  /\ SixConditions(src[BASICS_PATH][i])
                  /\ src[BASICS_PATH][i].tconst = basics[j].tconst
                  /\ src[BASICS_PATH][i].primaryTitle = basics[j].primaryTitle
                  /\ src[BASICS_PATH][i].startYear = basics[j].startYear
                  /\ src[BASICS_PATH][i].runtimeMinutes = basics[j].runtimeMinutes
                  /\ src[BASICS_PATH][i].genres = basics[j].genres

C13_Witness ==
    /\ BasicsStageDone
    /\ \E i \in 1..Len(src[BASICS_PATH]) :
          LET r == src[BASICS_PATH][i]
          IN /\ r.isAdult = NaInt
             /\ SixConditions([r EXCEPT !.isAdult = 0])
             /\ r.startYear = MIN_YEAR
             /\ r.runtimeMinutes = RUNTIME_MAX
             /\ r.tconst \notin KeysOf(basics)

\* C14: the run on the scenario sources (one movie of 1999, 120 minutes, Drama,
\* 5000 votes, directors p1,p2, actors p3 at position 1 and p9 at position 6,
\* people p1 -> A and p3 -> C) emits exactly one CatalogEntry, for that key,
\* with directorNames "A" and castNames "C".
C14_Scenario ==
    (src = ScenarioSources /\ pc = "done") =>
        /\ Len(outLocal.rows) = 1
        /\ outLocal.rows[1].tconst = "t1"
        /\ outLocal.rows[1].director_names = <<"A">>
        /\ outLocal.rows[1].cast_names_top5 = <<"C">>

C14_Witness ==
    /\ src = ScenarioSources
    /\ pc = "done"
    /\ outLocal.by = "run"
    /\ total_rows[PRINCIPALS_PATH] = 2

NamesOver ==
    \/ pc \in {"write_local", "write_features", "done"}
    \/ pc = "failed" /\ error.at \in {"names", "write_local", "write_features"}

\* the mapping the first n rows of the people source give
PrefixMap(n) ==
    MapChunk(EmptyMap, SelectSeq(SubSeq(src[NAMES_PATH], 1, n),
                                 LAMBDA r : r.nconst \in needed_nconst))

Resolved(n) == Cardinality(DOMAIN PrefixMap(n)) = Cardinality(needed_nconst)
Least(S) == CHOOSE n \in S : \A m \in S : n <= m

\* C15 as stated: the people scan stops as soon as the mapping is as large as
\* the needed-id set, reading no further row, and reads the whole source when
\* some needed id never gets a name.
C15_StopsAtOnce ==
    NamesOver =>
        LET S == {n \in 0..Len(src[NAMES_PATH]) : Resolved(n)}
        IN total_rows[NAMES_PATH] =
              IF S = {} THEN Len(src[NAMES_PATH]) ELSE Least(S)

\* C15 amended: the people scan stops at the end of the first batch after which
\* the mapping is as large as the needed-id set, reading no further batch, and
\* reads the whole source when some needed id never gets a name.
C15_StopsAtBatchEnd ==
    NamesOver =>
        LET ends == {n \in 1..Len(src[NAMES_PATH]) :
                        n % CHUNK_NAMES = 0 \/ n = Len(src[NAMES_PATH])}
            S == {n \in ends : Resolved(n)}
        IN /\ total_rows[NAMES_PATH] =
                 IF S = {} THEN Len(src[NAMES_PATH]) ELSE Least(S)
           /\ name_map = PrefixMap(total_rows[NAMES_PATH])

C15_Witness ==
    /\ pc = "done"
    /\ total_rows[NAMES_PATH] > 0
    /\ total_rows[NAMES_PATH] < Len(src[NAMES_PATH])
    /\ Resolved(total_rows[NAMES_PATH])

\* C16: the name mapping holds id -> name only for people rows whose id is
\* needed and whose id and name are both present and not blank; no blank name
\* is recorded, so none is part of directorNames or castNames.
C16_NoBlankName ==
    /\ \A id \in DOMAIN name_map :
          /\ id \in needed_nconst
          /\ Strip(name_map[id]) # <<>>
          /\ \E i \in 1..Len(src[NAMES_PATH]) :
                LET r == src[NAMES_PATH][i]
                IN /\ r.nconst = id /\ r.primaryName = name_map[id]
                   /\ r.nconst # NA /\ Strip(r.nconst) # <<>>
                   /\ r.primaryName # NA /\ Strip(r.primaryName) # <<>>
    /\ Assembled =>
          \A m \in 1..Len(movies) :
              /\ movies[m].director_names # <<>> =>
                    \A j \in 1..Len(SplitOn(movies[m].director_names, "|")) :
                        Strip(SplitOn(movies[m].director_names, "|")[j]) # <<>>
              /\ movies[m].cast_names_top5 # <<>> =>
                    \A j \in 1..Len(SplitOn(movies[m].cast_names_top5, "|")) :
                        Strip(SplitOn(movies[m].cast_names_top5, "|")[j]) # <<>>

\* C17: the normalisation of build_soup is idempotent: applied to a soup it
\* produced, and to the normal form of any input text, it changes nothing.
C17_Idempotent ==
    /\ \A i \in 1..Len(features) :
          Normalize(features[i].soup) = features[i].soup
    /\ \A i \in 1..Len(outFeatures.rows) :
          Normalize(outFeatures.rows[i].soup) = outFeatures.rows[i].soup
    /\ \A i \in 1..Len(src[BASICS_PATH]) :
          LET g == src[BASICS_PATH][i].genres
          IN Normalize(Normalize(g)) = Normalize(g)

C17_Witness ==
    /\ pc = "done"
    /\ \E i \in 1..Len(outLocal.rows) :
          LET g == outLocal.rows[i].genres
          IN /\ Len(g) = 3 /\ g[1] = "A" /\ g[2] \in WS /\ g[3] \in WS
             /\ outLocal.rows[i].director_names = <<>>
             /\ outLocal.rows[i].cast_names_top5 # <<>>
             /\ outFeatures.rows[i].soup = <<"a", " ", "c">>

\* the source crew rows of key k
CrewRowsOf(k) == SelectSeq(src[CREW_PATH], LAMBDA c : c.tconst = k)

\* no director id of field d has a recorded name
NoDirectorResolved(d) ==
    d = NA \/ \A j \in 1..Len(split_imdb_list(d)) :
                 split_imdb_list(d)[j] \notin DOMAIN name_map

\* no acting row of key k within the first CAST_TOP_N has a recorded name
NoCastResolved(k) ==
    \A i \in 1..Len(src[PRINCIPALS_PATH]) :
        LET p == src[PRINCIPALS_PATH][i]
        IN (p.tconst = k /\ p.category \in {<<"actor">>, <<"actress">>}
                /\ p.ordering \in 1..CAST_TOP_N)
              => p.nconst \notin DOMAIN name_map

OverBudget(f) == file_size_mb(f) > SIZE_BUDGET_MB

\* C19: when a written output exceeds the size budget the run ends with an
\* error or prints a warning that a within-budget run does not print, and the
\* outputs always hold every assembled row.
C19_BudgetSurfaced ==
    pc = "done" =>
        /\ (OverBudget(outLocal) \/ OverBudget(outFeatures)) =>
              \/ error # NoError
              \/ \E i \in 1..Len(printed) : printed[i].tag \in {"warning", "error"}
        /\ outLocal.rows = movies /\ outFeatures.rows = features

\* the half of C19 the code keeps: nothing is cut from the outputs to fit
C19_NeverTruncates ==
    pc = "done" =>
        /\ outLocal.rows = movies /\ outFeatures.rows = features
        /\ printed[3].args = <<Len(outLocal.rows), Len(outFeatures.rows)>>

\* the rows of a source the scan has been through
ScannedRows(path) == SubSeq(src[path], 1, total_rows[path])

\* the acting rows of the given keys placed within the first CAST_TOP_N
ActingRows(rows, keys) ==
    SelectSeq(rows, LAMBDA p : /\ p.tconst \in keys
                               /\ p.category = <<"actor">> \/ p.category = <<"actress">>
                               /\ p.ordering # NaInt
                               /\ p.ordering <= CAST_TOP_N)

\* the last present name among rows for person id n, NA when there is none
LastName(rows, n) ==
    LET hit == SelectSeq(rows, LAMBDA r : r.nconst = n /\ r.primaryName # NA)
    IN IF hit = <<>> THEN NA ELSE hit[Len(hit)].primaryName

\* C20: in each scan what is retained is exactly the scanned rows that satisfy
\* the stage's predicate, in source order: ratings with a candidate key, crew
\* rows with a post-rating key, acting rows of a post-rating key with a present
\* position <= CAST_TOP_N, and people rows whose id is needed.
C20_ScanExact ==
    /\ ratings = SelectSeq(ScannedRows(RATINGS_PATH),
                           LAMBDA r : r.tconst \in KeysOf(basics))
    /\ pc \in {"crew", "principals", "names"} =>
          crew = SelectSeq(ScannedRows(CREW_PATH),
                           LAMBDA c : c.tconst \in KeysOf(movies))
    /\ pc = "principals" =>
          LET kept == ActingRows(ScannedRows(PRINCIPALS_PATH), KeysOf(movies))
          IN /\ Len(principals) = Len(kept)
             /\ \A i \in 1..Len(kept) :
                   /\ principals[i].tconst = kept[i].tconst
                   /\ principals[i].ordering = kept[i].ordering
                   /\ principals[i].nconst = kept[i].nconst
    /\ pc = "names" =>
          /\ Len(principals) = Len(ActingRows(src[PRINCIPALS_PATH], KeysOf(movies)))
          /\ DOMAIN name_map \subseteq needed_nconst
          /\ \A n \in needed_nconst :
                LET name == LastName(ScannedRows(NAMES_PATH), n)
                IN IF name = NA THEN n \notin DOMAIN name_map
                   ELSE n \in DOMAIN name_map /\ name_map[n] = name

C20_Witness ==
    /\ pc = "principals"
    /\ total_rows[PRINCIPALS_PATH] = 2
    /\ Len(principals) = 1
    /\ src[PRINCIPALS_PATH][1].category = <<"director">>
    /\ principals[1].nconst = src[PRINCIPALS_PATH][2].nconst
    /\ Len(crew) = 1 /\ Len(ratings) = 2

\* the characters of the tokens of a list, in order
RECURSIVE Flatten(_)
Flatten(toks) == IF toks = <<>> THEN <<>> ELSE Head(toks) \o Flatten(Tail(toks))

NoSpace(s) == SelectSeq(s, LAMBDA ch : ch \notin WS)
IdsStarted == pc \in {"names", "write_local", "write_features", "done"}

\* C21: once the ids are collected, for every retained crew row the list
\* split_imdb_list gives for its directors field holds the ids in field order
\* with surrounding whitespace removed, is empty for the sentinel, a missing
\* value and a blank field, and holds no empty or whitespace-only token and no
\* sentinel; the needed-id set holds no sentinel either.
C21_SplitClean ==
    IdsStarted =>
        /\ \A i \in 1..Len(src[CREW_PATH]) :
              LET d == src[CREW_PATH][i].directors
                  ids == split_imdb_list(d)
              IN /\ (d = NA \/ d = Sentinel \/ NoSpace(d) = <<>>) => ids = <<>>
                 /\ \A j \in 1..Len(ids) :
                       /\ NoSpace(ids[j]) # <<>>
                       /\ Strip(ids[j]) = ids[j]
                       /\ ids[j] # Sentinel
                 /\ d # NA /\ d # Sentinel =>
                       NoSpace(Flatten(ids)) =
                           SelectSeq(d, LAMBDA ch : ch \notin WS \cup {","})
        /\ Sentinel \notin needed_nconst

\* what the code keeps of C21: everything but the absence of the sentinel
C21_SplitOrdered ==
    IdsStarted =>
        \A i \in 1..Len(src[CREW_PATH]) :
            LET d == src[CREW_PATH][i].directors
                ids == split_imdb_list(d)
            IN /\ (d = NA \/ d = Sentinel \/ NoSpace(d) = <<>>) => ids = <<>>
               /\ \A j \in 1..Len(ids) :
                     NoSpace(ids[j]) # <<>> /\ Strip(ids[j]) = ids[j]
               /\ d # NA /\ d # Sentinel =>
                     NoSpace(Flatten(ids)) =
                         SelectSeq(d, LAMBDA ch : ch \notin WS \cup {","})

\* the lowercase tokens of a list field whose separator is sep
FieldTokens(field, sep) == SplitWS(Lower(Replace(field, sep, " ")))

\* the tokens of genres, then of the director names, then of the cast names
SoupTokens(e) ==
    FieldTokens(e.genres, ",") \o FieldTokens(e.director_names, "|")
        \o FieldTokens(e.cast_names_top5, "|")

Has(s, ch) == \E j \in 1..Len(s) : s[j] = ch
Tidy(s) ==
    /\ s # <<>> => s[1] \notin WS /\ s[Len(s)] \notin WS
    /\ \A j \in 1..(Len(s) - 1) : ~(s[j] \in WS /\ s[j + 1] \in WS)
    /\ ~Has(s, "\t")
    /\ \A j \in 1..Len(s) : s[j] \notin {"A", "C", "D"}

\* C22 as stated: every soup is the single-space join of the field tokens, is
\* tidy (no outer space, no double space, no uppercase letter) and holds no
\* separator character at all.
C22_SoupShape ==
    Assembled =>
        /\ Len(features) = Len(movies)
        /\ \A i \in 1..Len(movies) :
              LET soup == features[i].soup
              IN /\ features[i].tconst = movies[i].tconst
                 /\ soup = Join(SoupTokens(movies[i]), <<" ">>)
                 /\ Tidy(soup)
                 /\ ~Has(soup, ",") /\ ~Has(soup, "|")

\* C22 amended: every soup is the single-space join of the field tokens and is
\* tidy; a comma in it comes from a name and a bar in it comes from genres,
\* whose own separators alone are replaced.
C22_SoupOwnSeparators ==
    Assembled =>
        /\ Len(features) = Len(movies)
        /\ \A i \in 1..Len(movies) :
              LET soup == features[i].soup
                  e == movies[i]
              IN /\ features[i].tconst = e.tconst
                 /\ soup = Join(SoupTokens(e), <<" ">>)
                 /\ Tidy(soup)
                 /\ Has(soup, ",") =>
                       Has(e.director_names, ",") \/ Has(e.cast_names_top5, ",")
                 /\ Has(soup, "|") => Has(e.genres, "|")

C22_Witness ==
    /\ pc = "done"
    /\ \E i \in 1..Len(outLocal.rows) :
          /\ outLocal.rows[i].genres = <<"A", ",", "c">>
          /\ outLocal.rows[i].director_names = <<"A", ",", " ", "c">>
          /\ outLocal.rows[i].cast_names_top5 = <<"C">>
          /\ outFeatures.rows[i].soup =
                <<"a", " ", "c", " ", "a", ",", " ", "c", " ", "c">>

\* C23: a set handed to a later stage is not changed by it: no step of the
\* ratings scan, and no step from the crew scan on, changes tconst_set; no step
\* from the people scan on changes needed_nconst; no step after the people scan
\* changes name_map.
C23_HandedSetsFrozen ==
    [][ /\ (pc = "ratings" /\ pc' # "crew") => tconst_set' = tconst_set
        /\ pc \in {"crew", "principals", "names", "write_local", "write_features"}
              => tconst_set' = tconst_set
        /\ pc \in {"names", "write_local", "write_features"}
              => needed_nconst' = needed_nconst
        /\ (pc = "names" /\ pc' # "names") \/ pc \in {"write_local", "write_features"}
              => name_map' = name_map ]_vars

C23_Witness ==
    /\ pc = "done"
    /\ tconst_set = {"t1", "t2"} /\ tconst_set = KeysOf(outLocal.rows)
    /\ needed_nconst = {<<"p1">>, <<"p2">>, <<"p3">>}
    /\ DOMAIN name_map = {<<"p1">>, <<"p3">>}
    /\ \A p \in PathSet : total_rows[p] >= 1

\* C24 as stated: a run that has ended has ended in the missing-input failure
\* or has written both outputs.
C24_RunsToOutputs ==
    ~Running =>
        \/ pc = "failed" /\ error.kind = "missing"
        \/ pc = "done" /\ outLocal.by = "run" /\ outFeatures.by = "run"

\* what the code keeps of C24: every run ends, with the outputs or a failure
C24_Terminates == <>(pc \in {"done", "failed"})

\* person id n has a row with a present name somewhere in the people source
HasName(n) ==
    \E i \in 1..Len(src[NAMES_PATH]) :
        src[NAMES_PATH][i].nconst = n /\ src[NAMES_PATH][i].primaryName # NA

\* C25: when build_name_map has returned, after an early stop or a full scan,
\* the keys of the mapping are needed ids and every needed id with a present
\* name anywhere in the people source is a key: the key set of a full scan.
C25_NoNameLost ==
    NamesOver =>
        /\ DOMAIN name_map \subseteq needed_nconst
        /\ \A n \in needed_nconst : HasName(n) => n \in DOMAIN name_map
        /\ DOMAIN name_map = DOMAIN PrefixMap(Len(src[NAMES_PATH]))

C25_Witness ==
    /\ pc = "done" /\ stopped
    /\ total_rows[NAMES_PATH] < Len(src[NAMES_PATH])
    /\ needed_nconst # {}
    /\ HasName(src[NAMES_PATH][Len(src[NAMES_PATH])].nconst)
    /\ DOMAIN name_map = needed_nconst

\* rows read by the people scan of a run with batch size c
ScanEnd(c) ==
    LET N == Len(src[NAMES_PATH])
        S == {k \in 1..N : Resolved(Min(k * c, N)) \/ k * c >= N}
    IN IF N = 0 THEN 0 ELSE Min(Least(S) * c, N)

\* the catalog rows of a run on the same sources with batch size c
RowsFor(c) ==
    Assemble(SelectSeq(MergeRatings(basics, ratings), VotesMask),
             FilterByKeys(src[CREW_PATH], tconst_set),
             sort_values(FilterCastChunk(src[PRINCIPALS_PATH], tconst_set)),
             PrefixMap(ScanEnd(c)))

\* C26: the outputs of a run are those of a run on the same sources with any
\* other batch size: same CatalogEntry rows and same FeatureEntry rows.
C26_BatchSizeFree ==
    pc = "done" =>
        \A c \in 1..MaxChunk :
            /\ outLocal.rows = RowsFor(c)
            /\ outFeatures.rows = BuildFeatures(RowsFor(c))

\* the comparison of C26 for the run's own batch size
C26_OwnBatchSize ==
    pc = "done" =>
        /\ outLocal.rows = RowsFor(chunksize[NAMES_PATH])
        /\ outFeatures.rows = BuildFeatures(RowsFor(chunksize[NAMES_PATH]))

\* C27: every FeatureEntry written has a soup of at least one token.
C27_SoupNonEmpty ==
    pc = "done" =>
        \A i \in 1..Len(outFeatures.rows) :
            /\ outFeatures.rows[i].soup # <<>>
            /\ SplitWS(outFeatures.rows[i].soup) # <<>>

\* C28: recommend_by_tconst returns no pair of the query title; it returns
\* the empty list when the query is not in the index or top_n <= 0, and
\* otherwise at most top_n pairs in non-increasing order of score.
C28_QueryNotReturned ==
    reco.pc = "returned" =>
        /\ \A a \in 1..Len(reco.out) : reco.out[a][1] # reco.query
        /\ (reco.query \notin SeqToSet(reco.tconst_list) \/ reco.top_n <= 0)
              => reco.out = <<>>
        /\ reco.top_n > 0 => Len(reco.out) <= reco.top_n
        /\ \A a \in 1..(Len(reco.out) - 1) : reco.out[a][2] >= reco.out[a + 1][2]

\* what the code keeps of C28: the empty results, the length and the order
C28_SizeAndOrder ==
    reco.pc = "returned" =>
        /\ (reco.query \notin SeqToSet(reco.tconst_list) \/ reco.top_n <= 0)
              => reco.out = <<>>
        /\ reco.top_n > 0 => Len(reco.out) <= reco.top_n
        /\ \A a \in 1..(Len(reco.out) - 1) : reco.out[a][2] >= reco.out[a + 1][2]

\* a bundle of movie id at most TTL_BUNDLES old is on disk
FreshOnDisk(id) ==
    \/ /\ files[id].kind = "bundle" /\ files[id].ts # MissingTs
       /\ clock.now - files[id].ts <= TTL_BUNDLES
    \/ /\ store.kind = "store" /\ id \in DOMAIN store.items
       /\ store.items[id].ts # MissingTs
       /\ clock.now - store.items[id].ts <= TTL_BUNDLES

C30_NoEntryLost ==
    (\A p \in Sessions : calls[p].pc \in {"idle", "returned", "raised"}) =>
        \A p \in Sessions :
            (calls[p].pc = "returned" /\ calls[p].use_cache /\ calls[p].http > 0)
                => /\ store.kind = "store"
                   /\ calls[p].tmdb_id \in DOMAIN store.items

\* C30 holds when the calls run one at a time
C30_SerialCalls == sessions = 1 => C30_NoEntryLost

====
